---- MODULE Spec2Model ----
(***************************************************************************)
(* Plumbing grid of Cataclysm-BN (src/plumbing_grid.cpp).                  *)
(*                                                                         *)
(* State: the adjacency store (one connection_map per overmap, one bitset  *)
(* per overmap terrain cell), the storage-grid tracker (submap -> shared   *)
(* storage grid, each grid with its submaps, its tank locations and its    *)
(* cached statistics) and the part of the world the grid reads and writes  *)
(* (resident submaps, furniture and items at a few map squares).           *)
(*                                                                         *)
(* Coordinates are tuples <<x, y, z>>; an overmap is <<x, y>>.              *)
(***************************************************************************)
EXTENDS Integers, Sequences, FiniteSets, TLC

VARIABLES
    store,                 \* plumbing_grid_store(): overmap -> (local cell -> bitset)
    parent_storage_grids,  \* plumbing_grid_tracker: submap -> storage grid (by identity)
    grids,                 \* the live plumbing_storage_grid objects, by identity
    resident,              \* mapbuffer: the submaps lookup_submap finds
    furn,                  \* mapbuffer: furniture at a map square
    items,                 \* mapbuffer: items at a map square
    last,                  \* the latest call: operation, arguments, results
    memo,                  \* per cell: the latest water_storage_at result still comparable
    fresh,                 \* storage grids told of a content change, not queried since:
                           \* identity, notified square, statistics cached until then
    note,                  \* what the observer saw in the latest step
    edges,                 \* the pairs connected by the calls so far
    edits,                 \* silent changes of the world so far
    walk                   \* a grid_at traversal: its seed, visited set and frontier

vars == <<store, parent_storage_grids, grids, resident, furn, items, last,
          memo, fresh, note, edges, edits, walk>>

-----------------------------------------------------------------------------
(* Program constants *)

\* overmap terrain cells per overmap side (project_to<coords::om>)
OMAPX == 180
\* map squares per submap side
SEEX == 12
SEEY == 12
\* capacity of one plumbed standing tank (furn_t::keg_capacity)
keg_capacity == 4

(* Bounds of the model *)

\* largest volume of one item the world puts into a tank
MaxVol == 2
\* most items on one map square
MaxItems == 2
\* silent world edits (no notification) in one behaviour
MaxEdits == 2

NoStats == [capacity |-> -1, stored |-> -1]
ZeroStats == [capacity |-> 0, stored |-> 0]

-----------------------------------------------------------------------------
(* Points and coordinate projections *)

six_cardinal_directions ==
    << <<0, -1, 0>>, <<1, 0, 0>>, <<0, 1, 0>>, <<-1, 0, 0>>, <<0, 0, 1>>, <<0, 0, -1>> >>

DirIndices == 0 .. (Len(six_cardinal_directions) - 1)

Dir(i) == six_cardinal_directions[i + 1]

Add3(p, d) == <<p[1] + d[1], p[2] + d[2], p[3] + d[3]>>
Sub3(p, q) == <<p[1] - q[1], p[2] - q[2], p[3] - q[3]>>
Neg3(d) == <<-d[1], -d[2], -d[3]>>
Abs(n) == IF n < 0 THEN -n ELSE n

\* std::ranges::find + std::distance: the index of d in the table, size() if absent
find_direction(d) ==
    IF \E i \in DirIndices : Dir(i) = d
    THEN CHOOSE i \in DirIndices : Dir(i) = d
    ELSE Len(six_cardinal_directions)

omt_to_om(p) == <<p[1] \div OMAPX, p[2] \div OMAPX>>
omt_to_sm(p) == <<2 * p[1], 2 * p[2], p[3]>>
omt_to_ms(p) == <<2 * SEEX * p[1], 2 * SEEY * p[2], p[3]>>
sm_to_omt(s) == <<s[1] \div 2, s[2] \div 2, s[3]>>
ms_to_sm(m) == <<m[1] \div SEEX, m[2] \div SEEY, m[3]>>
ms_to_omt(m) == sm_to_omt(ms_to_sm(m))
\* project_remain<coords::sm>: the submap and the square inside it
ms_remain(m) == <<m[1] % SEEX, m[2] % SEEY>>
\* the absolute map square of a square inside a submap
ms_of(sm, pos) == <<sm[1] * SEEX + pos[1], sm[2] * SEEY + pos[2], sm[3]>>

\* overmap_buffer.get_om_global: the overmap and the cell's coordinate inside it
get_om_global(p) ==
    [om |-> omt_to_om(p), local |-> <<p[1] % OMAPX, p[2] % OMAPX, p[3]>>]

-----------------------------------------------------------------------------
(* Adjacency store *)

EmptyMap == [x \in {} |-> {}]

\* plumbing_grid_store()[om.pos()]: creates the overmap's map when missing
connections_for(st, om) ==
    IF om \in DOMAIN st THEN st ELSE st @@ (om :> EmptyMap)

\* the read-only overload: the shared empty map when the overmap has none
connections_for_const(st, om) ==
    IF om \in DOMAIN st THEN st[om] ELSE EmptyMap

\* lookup by absolute cell: the empty bitset when the cell has no entry.
\* *omc.om is an lvalue of type overmap, not const overmap, so the call of
\* line 50 takes the overload of connections_for that creates the overmap's map.
connection_bitset_at(st, p) ==
    LET omc == get_om_global(p)
        connections == connections_for(st, omc.om)[omc.om]
    IN  IF omc.local \in DOMAIN connections THEN connections[omc.local] ELSE {}

\* the store that lookup leaves behind
connection_bitset_at_store(st, p) == connections_for(st, get_om_global(p).om)

\* bitset.test( i ) at an absolute cell
Bit(st, c, i) == i \in connection_bitset_at(st, c)

\* the mutable overload, connections[p]: creates the map and the entry when missing
connection_bitset_at_mut(st, omc) ==
    LET st1 == connections_for(st, omc.om)
    IN  IF omc.local \in DOMAIN st1[omc.om]
        THEN st1
        ELSE [st1 EXCEPT ![omc.om] = @ @@ (omc.local :> {})]

\* bitset[i] = v on an entry that exists
set_bit_whole(st, omc, i, v) ==
    [st EXCEPT ![omc.om][omc.local] = IF v THEN DirIndices ELSE {}]
set_bit(st, omc, i, v) ==
    [st EXCEPT ![omc.om][omc.local] = IF v THEN @ \cup {i} ELSE @ \ {i}]

\* every cell that has an entry, as an absolute cell
EntryCells(st) ==
    UNION { { <<om[1] * OMAPX + l[1], om[2] * OMAPX + l[2], l[3]>> : l \in DOMAIN st[om] }
            : om \in DOMAIN st }

-----------------------------------------------------------------------------
(* Connectivity engine *)

\* the neighbours one loop body of grid_at pushes, in direction-table order
RECURSIVE PushedFromShort(_, _, _, _)
PushedFromShort(elem, bits, result, i) ==
    IF i >= Len(six_cardinal_directions) - 1 THEN <<>>
    ELSE LET other == Add3(elem, Dir(i))
             rest == PushedFromShort(elem, bits, result, i + 1)
         IN  IF i \in bits /\ other \notin result THEN <<other>> \o rest ELSE rest

RECURSIVE PushedFromAll(_, _, _, _)
PushedFromAll(elem, bits, result, i) ==
    IF i >= Len(six_cardinal_directions) THEN <<>>
    ELSE LET other == Add3(elem, Dir(i))
             rest == PushedFromAll(elem, bits, result, i + 1)
         IN  IF i \in bits THEN <<other>> \o rest ELSE rest

RECURSIVE PushedFrom(_, _, _, _)
PushedFrom(elem, bits, result, i) ==
    IF i >= Len(six_cardinal_directions) THEN <<>>
    ELSE LET other == Add3(elem, Dir(i))
             rest == PushedFrom(elem, bits, result, i + 1)
         IN  IF i \in bits /\ other \notin result THEN <<other>> \o rest ELSE rest

GridAtStart(p) == [result |-> {}, open |-> <<p>>]

\* one iteration of the while loop of grid_at
GridAtStep(st, s) ==
    LET elem == Head(s.open)
        result1 == s.result \cup {elem}
        pushed == PushedFrom(elem, connection_bitset_at(st, elem), result1, 0)
    IN  [result |-> result1, open |-> Tail(s.open \o pushed),
         store |-> connection_bitset_at_store(st, elem)]

RECURSIVE GridAtLoop(_, _)
\* the loop goes on from what an iteration left
GridAtResume(n) == GridAtLoop(n.store, [result |-> n.result, open |-> n.open])

GridAtLoop(st, s) ==
    IF s.open = <<>> THEN [result |-> s.result, store |-> st]
    ELSE GridAtResume(GridAtStep(st, s))

\* grid_at( p ): the set returned, and the store the lookups leave behind
grid_at(st, p) == GridAtLoop(st, GridAtStart(p)).result
grid_at_store(st, p) == GridAtLoop(st, GridAtStart(p)).store

RECURSIVE ConnectivityFrom(_, _)
ConnectivityFrom(bits, i) ==
    IF i >= Len(six_cardinal_directions) THEN <<>>
    ELSE (IF i \in bits THEN <<Dir(i)>> ELSE <<>>) \o ConnectivityFrom(bits, i + 1)

\* grid_connectivity_at( p ): the vector returned, and the store left behind
grid_connectivity_at(st, p) == ConnectivityFrom(connection_bitset_at(st, p), 0)
grid_connectivity_at_store(st, p) == connection_bitset_at_store(st, p)

-----------------------------------------------------------------------------
(* Ordering of std::set<tripoint> and of the submap scan *)

LexLess(p, q) ==
    \/ p[1] < q[1]
    \/ p[1] = q[1] /\ p[2] < q[2]
    \/ p[1] = q[1] /\ p[2] = q[2] /\ p[3] < q[3]

RECURSIVE SortedSeq(_)
SortedSeq(S) ==
    IF S = {} THEN <<>>
    ELSE LET m == CHOOSE x \in S : \A y \in S \ {x} : LexLess(x, y)
         IN  <<m>> \o SortedSeq(S \ {m})

Range(f) == { f[i] : i \in DOMAIN f }

-----------------------------------------------------------------------------
(* The world the grid reads: cells, map squares, items *)

\* a chain A - B - C inside one overmap (B - C vertical) and D east of C in the next overmap
cA == <<178, 0, 0>>
cB == <<179, 0, 0>>
cC == <<179, 0, 1>>
cD == <<180, 0, 1>>
Cells == {cA, cB, cC, cD}

\* map squares: a tank site under A (base submap), one under B (south submap),
\* one under C (south-east submap) and a bare square under B (east submap)
sqA == ms_of(Add3(omt_to_sm(cA), <<0, 0, 0>>), <<0, 0>>)
sqB == ms_of(Add3(omt_to_sm(cB), <<0, 1, 0>>), <<3, 1>>)
sqC == ms_of(Add3(omt_to_sm(cC), <<1, 1, 0>>), <<1, 0>>)
sqP == ms_of(Add3(omt_to_sm(cB), <<1, 0, 0>>), <<0, 2>>)
Squares == {sqA, sqB, sqC, sqP}
TankSites == {sqA, sqB, sqC}

LiquidTypes == {"water", "fuel"}
ItemTypes == LiquidTypes \cup {"rock"}

\* item::made_of( LIQUID )
made_of_liquid(it) == it.type \in LiquidTypes

\* mapbuffer::lookup_submap: a submap or nullptr
lookup_submap(res, sm) == sm \in res

\* submap::get_furn( pos ).id() == furn_standing_tank_plumbed_str
is_plumbed_tank(fu, m) == m \in DOMAIN fu /\ fu[m] = "tank"

\* submap::get_items( pos )
get_items(its, m) == IF m \in DOMAIN its THEN its[m] ELSE <<>>

-----------------------------------------------------------------------------
(* plumbing_storage_grid *)

\* the inner scan of the constructor over one submap: x outer, y inner
TanksInSubmap(fu, sm) ==
    LET found == { m \in Squares : ms_to_sm(m) = sm /\ is_plumbed_tank(fu, m) }
        sorted == SortedSeq(found)
    IN  [k \in DOMAIN sorted |-> [submap |-> sm, pos |-> ms_remain(sorted[k])]]

RECURSIVE ScanSubmaps(_, _, _)
ScanSubmaps(res, fu, subs) ==
    IF subs = <<>> THEN <<>>
    ELSE (IF lookup_submap(res, Head(subs)) THEN TanksInSubmap(fu, Head(subs)) ELSE <<>>)
         \o ScanSubmaps(res, fu, Tail(subs))

\* the constructor: remembers the submaps and the tank locations found in them now
plumbing_storage_grid(res, fu, subs) ==
    [submap_coords |-> subs,
     tank_locations |-> ScanSubmaps(res, fu, subs),
     cached_stats |-> NoStats]

\* invalidate(): cached_stats.reset()
invalidate_nothing(g) == g
invalidate(g) == [g EXCEPT !.cached_stats = NoStats]

RECURSIVE SumLiquid(_)
SumLiquid(its) ==
    IF its = <<>> THEN 0
    ELSE (IF made_of_liquid(Head(its)) THEN Head(its).volume ELSE 0) + SumLiquid(Tail(its))

\* the scan of get_stats over the recorded tank locations
RECURSIVE ScanStatsUnchecked(_, _, _, _)
ScanStatsUnchecked(res, fu, its, locs) ==
    IF locs = <<>> THEN ZeroStats
    ELSE LET loc == Head(locs)
             m == ms_of(loc.submap, loc.pos)
             rest == ScanStatsUnchecked(res, fu, its, Tail(locs))
         IN  [capacity |-> keg_capacity + rest.capacity,
              stored |-> SumLiquid(get_items(its, m)) + rest.stored]

RECURSIVE ScanStats(_, _, _, _)
ScanStats(res, fu, its, locs) ==
    IF locs = <<>> THEN ZeroStats
    ELSE LET loc == Head(locs)
             m == ms_of(loc.submap, loc.pos)
             rest == ScanStats(res, fu, its, Tail(locs))
         IN  IF ~lookup_submap(res, loc.submap) THEN rest
             ELSE IF ~is_plumbed_tank(fu, m) THEN rest
             ELSE [capacity |-> keg_capacity + rest.capacity,
                   stored |-> SumLiquid(get_items(its, m)) + rest.stored]

\* get_stats(): the cached value if there is one, else scan and cache
get_stats_rescan(res, fu, its, g) ==
    LET stats == ScanStats(res, fu, its, g.tank_locations)
    IN  [stats |-> stats, grid |-> [g EXCEPT !.cached_stats = stats]]
get_stats(res, fu, its, g) ==
    IF g.cached_stats # NoStats
    THEN [stats |-> g.cached_stats, grid |-> g]
    ELSE LET stats == ScanStats(res, fu, its, g.tank_locations)
         IN  [stats |-> stats, grid |-> [g EXCEPT !.cached_stats = stats]]

\* the first liquid item of a sequence, or "" when it holds none
RECURSIVE FirstLiquid(_)
FirstLiquid(its) ==
    IF its = <<>> THEN ""
    ELSE IF made_of_liquid(Head(its)) THEN Head(its).type ELSE FirstLiquid(Tail(its))

\* the scan of drain_to: collect the liquid and clear every visited tank
DrainScanKeep(res, fu, acc, locs) == acc
RECURSIVE DrainScan(_, _, _, _)
DrainScan(res, fu, acc, locs) ==
    IF locs = <<>> THEN acc
    ELSE LET loc == Head(locs)
             m == ms_of(loc.submap, loc.pos)
             here == get_items(acc.items, m)
         IN  IF ~lookup_submap(res, loc.submap) \/ ~is_plumbed_tank(fu, m)
             THEN DrainScan(res, fu, acc, Tail(locs))
             ELSE DrainScan(res, fu,
                     [total_volume |-> acc.total_volume + SumLiquid(here),
                      liquid_type |-> IF ~acc.has_liquid /\ FirstLiquid(here) # ""
                                      THEN FirstLiquid(here) ELSE acc.liquid_type,
                      has_liquid |-> acc.has_liquid \/ FirstLiquid(here) # "",
                      items |-> [acc.items EXCEPT ![m] = <<>>]],
                     Tail(locs))

\* item::spawn( liquid_type ) with charges_per_volume( total_volume )
spawn_liquid(type, volume) == [type |-> type, volume |-> volume]

\* what drain_to does after the scan: place one stack at the target, if any
Deposit(res, acc, target) ==
    IF ~acc.has_liquid \/ acc.total_volume <= 0
    THEN acc.items
    ELSE IF ~lookup_submap(res, ms_to_sm(target))
    THEN acc.items
    ELSE [acc.items EXCEPT ![target] = <<spawn_liquid(acc.liquid_type, acc.total_volume)>>]

DrainStart(its) ==
    [total_volume |-> 0, liquid_type |-> "", has_liquid |-> FALSE, items |-> its]

\* drain_to( target ): the grid and the items of the world afterwards
drain_to_keep_cache(res, fu, its, g, target) ==
    [grid |-> g,
     items |-> Deposit(res, DrainScan(res, fu, DrainStart(its), g.tank_locations), target)]
drain_to(res, fu, its, g, target) ==
    [grid |-> [g EXCEPT !.cached_stats = NoStats],
     items |-> Deposit(res, DrainScan(res, fu, DrainStart(its), g.tank_locations), target)]

-----------------------------------------------------------------------------
(* plumbing_grid_tracker.  A tracker value is [parent, grids]: parent maps a  *)
(* submap to the identity of its shared storage grid, grids holds the grids  *)
(* some submap still refers to (a shared_ptr dies with its last reference).  *)

\* the four submaps of every cell, cells in std::set order
RECURSIVE SubmapPositions(_)
SubmapPositions(omts) ==
    IF omts = <<>> THEN <<>>
    ELSE LET base == omt_to_sm(Head(omts))
         IN  <<Add3(base, <<0, 0, 0>>), Add3(base, <<1, 0, 0>>),
               Add3(base, <<0, 1, 0>>), Add3(base, <<1, 1, 0>>)>>
             \o SubmapPositions(Tail(omts))

\* Identities are pointers: only their equality matters.  A new grid is named
\* after the least submap it covers, with the least count that keeps the name
\* apart from the grids that stay referenced.
FreshId(used, sm) ==
    LET n == CHOOSE k \in 0 .. Cardinality(used) : <<sm, k>> \notin used
    IN  <<sm, n>>

\* make_storage_grid_at( sm_pos ): build the grid of the cell's component and
\* index every submap of the component to it
make_storage_grid_at_own_cell(T, st, res, fu, sm_pos) ==
    LET overmap_positions == grid_at(st, sm_to_omt(sm_pos))
        submap_positions == SubmapPositions(SortedSeq(overmap_positions))
        covered == Range(SubmapPositions(<<sm_to_omt(sm_pos)>>))
        kept == DOMAIN T.parent \ covered
        used == { T.parent[s] : s \in kept }
        id == FreshId(used, submap_positions[1])
        parent1 == [s \in kept \cup covered |-> IF s \in covered THEN id ELSE T.parent[s]]
        grids1 == [i \in used \cup {id} |->
                      IF i = id THEN plumbing_storage_grid(res, fu, submap_positions)
                      ELSE T.grids[i]]
    IN  [parent |-> parent1, grids |-> grids1, id |-> id,
         store |-> grid_at_store(st, sm_to_omt(sm_pos))]
\* lines 216-220: every submap the new grid covers is indexed to it
IndexSubmaps(T, res, fu, submap_positions, covered, kept, used, id, st) ==
    [parent |-> [s \in kept \cup covered |-> IF s \in covered THEN id ELSE T.parent[s]],
     grids |-> [i \in used \cup {id} |->
                  IF i = id THEN plumbing_storage_grid(res, fu, submap_positions)
                  ELSE T.grids[i]],
     id |-> id,
     store |-> st]

\* line 215: a new grid object; the grids no submap refers to any more are gone
KeepOthers(T, res, fu, submap_positions, covered, kept, st) ==
    IndexSubmaps(T, res, fu, submap_positions, covered, kept,
                 { T.parent[s] : s \in kept },
                 FreshId({ T.parent[s] : s \in kept }, submap_positions[1]), st)

StorageGridOver(T, res, fu, submap_positions, st) ==
    KeepOthers(T, res, fu, submap_positions, Range(submap_positions),
               DOMAIN T.parent \ Range(submap_positions), st)

\* walked: what grid_at( sm_to_omt( sm_pos ) ) returned and the store it left
StorageGridOf(T, res, fu, walked) ==
    StorageGridOver(T, res, fu, SubmapPositions(SortedSeq(walked.result)), walked.store)

make_storage_grid_at(T, st, res, fu, sm_pos) ==
    StorageGridOf(T, res, fu, GridAtLoop(st, GridAtStart(sm_to_omt(sm_pos))))

\* storage_at( p ): the indexed grid of the cell's base submap, else a new one
storage_at(T, st, res, fu, p) ==
    LET sm_pos == omt_to_sm(p)
    IN  IF sm_pos \in DOMAIN T.parent
        THEN [parent |-> T.parent, grids |-> T.grids, id |-> T.parent[sm_pos], store |-> st]
        ELSE make_storage_grid_at(T, st, res, fu, sm_pos)

\* invalidate_at( p ): drop the cached statistics of the grid indexed at p's submap
invalidate_at(T, p) ==
    LET sm_pos == ms_to_sm(p)
    IN  IF sm_pos \in DOMAIN T.parent
        THEN [parent |-> T.parent,
              grids |-> [T.grids EXCEPT ![T.parent[sm_pos]] = invalidate(@)]]
        ELSE [parent |-> T.parent, grids |-> T.grids]

\* rebuild_at( p )
rebuild_at_never(T, st, res, fu, p) == [parent |-> T.parent, grids |-> T.grids, store |-> st]
TrackerAndStore(r) == [parent |-> r.parent, grids |-> r.grids, store |-> r.store]
rebuild_at(T, st, res, fu, p) ==
    TrackerAndStore(make_storage_grid_at(T, st, res, fu, ms_to_sm(p)))

Tracker == [parent |-> parent_storage_grids, grids |-> grids]

-----------------------------------------------------------------------------
(* Records of the calls *)

NoPoint == <<>>
NoMemo == [stats |-> NoStats, tainted |-> FALSE]

Call(op, a, b, ok, stats) == [op |-> op, a |-> a, b |-> b, ok |-> ok, stats |-> stats]

\* a call among on_contents_changed, on_structure_changed, add_grid_connection and
\* remove_grid_connection forgets every remembered water_storage_at result
ForgetAll == [c \in Cells |-> NoMemo]
\* disconnect_tank and clear leave the results remembered, marked
TaintAll == [c \in Cells |-> [memo[c] EXCEPT !.tainted = memo[c].stats # NoStats]]

\* no traversal to speak of
IdleWalk == [pc |-> "idle", seed |-> NoPoint, result |-> {}, open |-> <<>>]

Manhattan(d) == Abs(d[1]) + Abs(d[2]) + Abs(d[3])

-----------------------------------------------------------------------------
(* Initial state: empty store, empty tracker; a tank under each of A, B and C *)

InitWorld ==
    /\ resident = { ms_to_sm(m) : m \in Squares }
    /\ furn = [m \in Squares |-> IF m \in TankSites THEN "tank" ELSE "none"]
    /\ items = [m \in Squares |->
                  IF m = sqA THEN <<[type |-> "water", volume |-> 1]>>
                  ELSE IF m = sqB THEN <<[type |-> "rock", volume |-> 1],
                                         [type |-> "fuel", volume |-> 2]>>
                  ELSE IF m = sqC THEN <<[type |-> "water", volume |-> 2]>>
                  ELSE <<>>]

Init ==
    /\ store = EmptyMap
    /\ parent_storage_grids = EmptyMap
    /\ grids = EmptyMap
    /\ InitWorld
    /\ last = Call("init", NoPoint, NoPoint, FALSE, NoStats)
    /\ memo = [c \in Cells |-> NoMemo]
    /\ fresh = {}
    /\ note = {}
    /\ edges = {}
    /\ edits = 0
    /\ walk = IdleWalk

-----------------------------------------------------------------------------
(* The mutation API *)

\* line 354: the cells lie in different overmaps
different_overmaps_unchecked(lhs, rhs) == FALSE
different_overmaps(lhs, rhs) == omt_to_om(lhs) # omt_to_om(rhs)

\* line 360: the cells are not orthogonally adjacent
not_adjacent(lhs, rhs) == Manhattan(Sub3(rhs, lhs)) # 1

\* line 377: both bits are set
both_set_unchecked(st, lhs_omc, lhs_i, rhs_omc, rhs_i) == FALSE
both_set(st, lhs_omc, lhs_i, rhs_omc, rhs_i) ==
    lhs_i \in st[lhs_omc.om][lhs_omc.local] /\ rhs_i \in st[rhs_omc.om][rhs_omc.local]

\* line 409: neither bit is set
none_set_either(st, lhs_omc, lhs_i, rhs_omc, rhs_i) ==
    lhs_i \notin st[lhs_omc.om][lhs_omc.local] \/ rhs_i \notin st[rhs_omc.om][rhs_omc.local]
none_set(st, lhs_omc, lhs_i, rhs_omc, rhs_i) ==
    lhs_i \notin st[lhs_omc.om][lhs_omc.local] /\ rhs_i \notin st[rhs_omc.om][rhs_omc.local]

\* lines 382-383 and 414-415: write both bits
write_lhs_only(st, lhs_omc, lhs_i, rhs_omc, rhs_i, v) == set_bit(st, lhs_omc, lhs_i, v)
write_both(st, lhs_omc, lhs_i, rhs_omc, rhs_i, v) ==
    set_bit(set_bit(st, lhs_omc, lhs_i, v), rhs_omc, rhs_i, v)

\* lines 384-385 and 416-417: on_structure_changed at lhs, then at rhs
structure_changed_lhs_only(T, st, res, fu, lhs, rhs) ==
    rebuild_at(T, st, res, fu, omt_to_ms(lhs))
rebuild_after(r, res, fu, p) == rebuild_at(r, r.store, res, fu, p)
structure_changed_both(T, st, res, fu, lhs, rhs) ==
    rebuild_after(rebuild_at(T, st, res, fu, omt_to_ms(lhs)), res, fu, omt_to_ms(rhs))

\* the store and the tracker become what the call left
Installed(r) ==
    /\ store' = r.store
    /\ parent_storage_grids' = r.parent
    /\ grids' = r.grids

add_grid_connection(lhs, rhs) ==
    /\ UNCHANGED <<resident, furn, items>>
    /\ IF different_overmaps(lhs, rhs)
       THEN /\ last' = Call("add_grid_connection", lhs, rhs, FALSE, NoStats)
            /\ UNCHANGED <<store, parent_storage_grids, grids>>
       ELSE IF not_adjacent(lhs, rhs)
       THEN /\ last' = Call("add_grid_connection", lhs, rhs, FALSE, NoStats)
            /\ UNCHANGED <<store, parent_storage_grids, grids>>
       ELSE LET coord_diff == Sub3(rhs, lhs)
                lhs_omc == get_om_global(lhs)
                rhs_omc == get_om_global(rhs)
                lhs_i == find_direction(coord_diff)
                rhs_i == find_direction(Neg3(coord_diff))
                st1 == connection_bitset_at_mut(connection_bitset_at_mut(store, lhs_omc),
                                                rhs_omc)
            IN  IF both_set(st1, lhs_omc, lhs_i, rhs_omc, rhs_i)
                THEN /\ store' = st1
                     /\ last' = Call("add_grid_connection", lhs, rhs, FALSE, NoStats)
                     /\ UNCHANGED <<parent_storage_grids, grids>>
                ELSE LET st2 == write_both(st1, lhs_omc, lhs_i, rhs_omc, rhs_i, TRUE)
                     IN  /\ Installed(structure_changed_both(Tracker, st2, resident, furn,
                                                             lhs, rhs))
                         /\ last' = Call("add_grid_connection", lhs, rhs, TRUE, NoStats)

remove_grid_connection(lhs, rhs) ==
    /\ UNCHANGED <<resident, furn, items>>
    /\ IF not_adjacent(lhs, rhs)
       THEN /\ last' = Call("remove_grid_connection", lhs, rhs, FALSE, NoStats)
            /\ UNCHANGED <<store, parent_storage_grids, grids>>
       ELSE LET coord_diff == Sub3(rhs, lhs)
                lhs_omc == get_om_global(lhs)
                rhs_omc == get_om_global(rhs)
                lhs_i == find_direction(coord_diff)
                rhs_i == find_direction(Neg3(coord_diff))
                st1 == connection_bitset_at_mut(connection_bitset_at_mut(store, lhs_omc),
                                                rhs_omc)
            IN  IF none_set(st1, lhs_omc, lhs_i, rhs_omc, rhs_i)
                THEN /\ store' = st1
                     /\ last' = Call("remove_grid_connection", lhs, rhs, FALSE, NoStats)
                     /\ UNCHANGED <<parent_storage_grids, grids>>
                ELSE LET st2 == write_both(st1, lhs_omc, lhs_i, rhs_omc, rhs_i, FALSE)
                     IN  /\ Installed(structure_changed_both(Tracker, st2, resident, furn,
                                                             lhs, rhs))
                         /\ last' = Call("remove_grid_connection", lhs, rhs, TRUE, NoStats)

clear_store_only ==
    /\ store' = EmptyMap
    /\ last' = Call("clear", NoPoint, NoPoint, FALSE, NoStats)
    /\ UNCHANGED <<parent_storage_grids, grids, resident, furn, items>>

clear ==
    /\ store' = EmptyMap
    /\ parent_storage_grids' = EmptyMap
    /\ grids' = EmptyMap
    /\ last' = Call("clear", NoPoint, NoPoint, FALSE, NoStats)
    /\ UNCHANGED <<resident, furn, items>>

-----------------------------------------------------------------------------
(* Queries and notifications *)

\* r: what storage_at( p ) left; s: what get_stats() of its grid left
water_storage_got(p, r, s) ==
    /\ parent_storage_grids' = r.parent
    /\ grids' = [r.grids EXCEPT ![r.id] = s.grid]
    /\ store' = r.store
    /\ last' = Call("water_storage_at", p, NoPoint, FALSE, s.stats)
    /\ UNCHANGED <<resident, furn, items>>

water_storage_of(p, r) ==
    water_storage_got(p, r, get_stats(resident, furn, items, r.grids[r.id]))

water_storage_at(p) == water_storage_of(p, storage_at(Tracker, store, resident, furn, p))

\* grid_at( p ) as one call
grid_at_call(p) ==
    /\ store' = grid_at_store(store, p)
    /\ last' = Call("grid_at", p, NoPoint, FALSE, NoStats)
    /\ UNCHANGED <<parent_storage_grids, grids, resident, furn, items>>

\* grid_connectivity_at( p )
grid_connectivity_at_call(p) ==
    /\ store' = grid_connectivity_at_store(store, p)
    /\ last' = Call("grid_connectivity_at", p, NoPoint, FALSE, NoStats)
    /\ UNCHANGED <<parent_storage_grids, grids, resident, furn, items>>

on_contents_changed(p) ==
    LET r == invalidate_at(Tracker, p)
    IN  /\ parent_storage_grids' = r.parent
        /\ grids' = r.grids
        /\ last' = Call("on_contents_changed", p, NoPoint, FALSE, NoStats)
        /\ UNCHANGED <<store, resident, furn, items>>

on_structure_changed(p) ==
    /\ Installed(rebuild_at(Tracker, store, resident, furn, p))
    /\ last' = Call("on_structure_changed", p, NoPoint, FALSE, NoStats)
    /\ UNCHANGED <<resident, furn, items>>

\* r: what storage_at( ms_to_omt( p ) ) left; d: what drain_to( p ) of its grid left
disconnect_tank_got(p, r, d) ==
    /\ parent_storage_grids' = r.parent
    /\ grids' = [r.grids EXCEPT ![r.id] = d.grid]
    /\ items' = d.items
    /\ store' = r.store
    /\ last' = Call("disconnect_tank", p, NoPoint, FALSE, NoStats)
    /\ UNCHANGED <<resident, furn>>

disconnect_tank_of(p, r) ==
    disconnect_tank_got(p, r, drain_to(resident, furn, items, r.grids[r.id], p))

disconnect_tank(p) ==
    disconnect_tank_of(p, storage_at(Tracker, store, resident, furn, ms_to_omt(p)))

-----------------------------------------------------------------------------
(* The world changing without a notification *)

\* somebody puts an item into a tank site
put_item(m, it) ==
    /\ Len(items[m]) < MaxItems
    /\ items' = [items EXCEPT ![m] = Append(@, it)]
    /\ last' = Call("world_edit", NoPoint, NoPoint, FALSE, NoStats)
    /\ UNCHANGED <<store, parent_storage_grids, grids, resident, furn>>

\* somebody takes everything out of a tank site
take_items(m) ==
    /\ items[m] # <<>>
    /\ items' = [items EXCEPT ![m] = <<>>]
    /\ last' = Call("world_edit", NoPoint, NoPoint, FALSE, NoStats)
    /\ UNCHANGED <<store, parent_storage_grids, grids, resident, furn>>

\* somebody takes a tank away, or puts one up, and tells nobody
remove_tank(m) ==
    /\ furn[m] = "tank"
    /\ furn' = [furn EXCEPT ![m] = "none"]
    /\ last' = Call("world_edit", NoPoint, NoPoint, FALSE, NoStats)
    /\ UNCHANGED <<store, parent_storage_grids, grids, resident, items>>

place_tank(m) ==
    /\ furn[m] # "tank"
    /\ furn' = [furn EXCEPT ![m] = "tank"]
    /\ last' = Call("world_edit", NoPoint, NoPoint, FALSE, NoStats)
    /\ UNCHANGED <<store, parent_storage_grids, grids, resident, items>>

\* the same changes made by a caller that keeps its side of the contract:
\* on_contents_changed after a change of contents, on_structure_changed after
\* a tank was put up or taken away
fill_tank(m, it) ==
    LET r == invalidate_at(Tracker, m)
    IN  /\ Len(items[m]) < MaxItems
        /\ items' = [items EXCEPT ![m] = Append(@, it)]
        /\ parent_storage_grids' = r.parent
        /\ grids' = r.grids
        /\ last' = Call("on_contents_changed", m, NoPoint, FALSE, NoStats)
        /\ UNCHANGED <<store, resident, furn>>

empty_tank(m) ==
    LET r == invalidate_at(Tracker, m)
    IN  /\ items[m] # <<>>
        /\ items' = [items EXCEPT ![m] = <<>>]
        /\ parent_storage_grids' = r.parent
        /\ grids' = r.grids
        /\ last' = Call("on_contents_changed", m, NoPoint, FALSE, NoStats)
        /\ UNCHANGED <<store, resident, furn>>

build_tank(m) ==
    /\ furn[m] # "tank"
    /\ furn' = [furn EXCEPT ![m] = "tank"]
    /\ Installed(rebuild_at(Tracker, store, resident, [furn EXCEPT ![m] = "tank"], m))
    /\ last' = Call("on_structure_changed", m, NoPoint, FALSE, NoStats)
    /\ UNCHANGED <<resident, items>>

dismantle_tank(m) ==
    /\ furn[m] = "tank"
    /\ furn' = [furn EXCEPT ![m] = "none"]
    /\ Installed(rebuild_at(Tracker, store, resident, [furn EXCEPT ![m] = "none"], m))
    /\ last' = Call("on_structure_changed", m, NoPoint, FALSE, NoStats)
    /\ UNCHANGED <<resident, items>>

\* the map buffer drops a submap
unload_submap(sm) ==
    /\ sm \in resident
    /\ resident' = resident \ {sm}
    /\ last' = Call("world_edit", NoPoint, NoPoint, FALSE, NoStats)
    /\ UNCHANGED <<store, parent_storage_grids, grids, furn, items>>

\* the map buffer loads a submap again
load_submap(sm) ==
    /\ sm \notin resident
    /\ resident' = resident \cup {sm}
    /\ last' = Call("world_edit", NoPoint, NoPoint, FALSE, NoStats)
    /\ UNCHANGED <<store, parent_storage_grids, grids, furn, items>>

-----------------------------------------------------------------------------
(* The observer: what the calls so far have shown.  It reads the call record   *)
(* and the two states of a step and never influences the program.              *)

\* the tanks a drain for the target p visits: the locations its storage grid
\* recorded that are resident and still hold a tank
VisitedAmong(locs) ==
    { m \in Squares : /\ \E k \in DOMAIN locs : ms_of(locs[k].submap, locs[k].pos) = m
                      /\ lookup_submap(resident, ms_to_sm(m))
                      /\ is_plumbed_tank(furn, m) }
GridOf(r) == r.grids[r.id]
DrainVisited(p) ==
    VisitedAmong(GridOf(storage_at(Tracker, store, resident, furn, ms_to_omt(p))).tank_locations)

\* such a drain meets no liquid item
DrainFindsNoLiquid(p) == \A m \in DrainVisited(p) : FirstLiquid(items[m]) = ""

\* the storage grids a step leaves in place (same identity, same submaps and tanks)
Survivors ==
    { i \in DOMAIN grids \cap DOMAIN grids' :
        /\ grids'[i].submap_coords = grids[i].submap_coords
        /\ grids'[i].tank_locations = grids[i].tank_locations }

\* the grids that were told of a content change and have not been queried since
FreshIds == { f.id : f \in fresh }

Mutators == {"add_grid_connection", "remove_grid_connection",
             "on_contents_changed", "on_structure_changed"}
Resetters == {"disconnect_tank", "clear"}

Observe ==
    LET call == last'
        sm == IF call.op = "water_storage_at" THEN omt_to_sm(call.a)
              ELSE IF call.op = "on_contents_changed" THEN ms_to_sm(call.a)
              ELSE NoPoint
        indexed == sm \in DOMAIN parent_storage_grids
    IN  /\ edges' = IF call.op = "add_grid_connection" /\ call.ok
                    THEN edges \cup {{call.a, call.b}}
                    ELSE IF call.op = "remove_grid_connection" /\ call.ok
                    THEN edges \ {{call.a, call.b}}
                    ELSE IF call.op = "clear" THEN {}
                    ELSE edges
        /\ memo' = IF call.op \in Mutators THEN ForgetAll
                   ELSE IF call.op \in Resetters THEN TaintAll
                   ELSE IF call.op = "water_storage_at"
                   THEN [memo EXCEPT ![call.a] = [stats |-> call.stats, tainted |-> FALSE]]
                   ELSE memo
        /\ fresh' = LET stay == { f \in fresh : f.id \in Survivors }
                    IN  IF call.op = "water_storage_at"
                        THEN { f \in stay : f.id # parent_storage_grids'[sm] }
                        ELSE IF call.op = "on_contents_changed" /\ indexed
                                /\ parent_storage_grids[sm] \notin FreshIds
                        THEN stay \cup {[id |-> parent_storage_grids[sm], at |-> call.a,
                                         was |-> grids[parent_storage_grids[sm]].cached_stats]}
                        ELSE stay
        /\ note' = (IF call.op = last.op /\ call.a = last.a /\ call.b = last.b
                    THEN {"again"} ELSE {})
                   \cup (IF last.ok THEN {"after_ok"} ELSE {})
                   \cup (IF call.op \in {"add_grid_connection", "remove_grid_connection"}
                            /\ {call.a, call.b} \notin edges
                         THEN {"absent"} ELSE {})
                   \cup (IF call.op = "water_storage_at" /\ indexed
                            /\ parent_storage_grids[sm] \in FreshIds
                         THEN {"notified"} ELSE {})
                   \cup (IF call.op = "water_storage_at" /\ indexed
                            /\ \E f \in fresh : /\ f.id = parent_storage_grids[sm]
                                                 /\ ms_to_omt(f.at) # call.a
                                                 /\ f.was \notin {NoStats, call.stats}
                         THEN {"renewed_elsewhere"} ELSE {})
                   \cup (IF call.op = "disconnect_tank" /\ DrainFindsNoLiquid(call.a)
                            /\ \E m \in DrainVisited(call.a) : items[m] # <<>>
                         THEN {"dry"} ELSE {})
                   \cup (IF call.op = "water_storage_at"
                            /\ (indexed => grids[parent_storage_grids[sm]].cached_stats = NoStats)
                         THEN {"recomputed"} ELSE {})
                   \cup (IF call.op \in {"add_grid_connection", "remove_grid_connection"}
                            /\ Manhattan(Sub3(call.b, call.a)) = 1
                            /\ Bit(store, call.a, find_direction(Sub3(call.b, call.a)))
                                # Bit(store, call.b, find_direction(Sub3(call.a, call.b)))
                         THEN {"one_sided"} ELSE {})
                   \cup (IF call.op = "water_storage_at" /\ memo[call.a].stats # NoStats
                         THEN {"repeated"} ELSE {})
                   \cup (IF call.op = "water_storage_at" /\ memo[call.a].stats # NoStats
                            /\ ~memo[call.a].tainted
                         THEN {"undisturbed"} ELSE {})

\* a call (or a submap coming back) runs to its end while no traversal is stepped through
Called(A) == walk.pc # "loop" /\ A /\ Observe /\ walk' = IdleWalk /\ UNCHANGED edits

\* a silent change of the world
Edited(A) == walk.pc # "loop" /\ edits < MaxEdits /\ A /\ Observe /\ edits' = edits + 1
             /\ walk' = IdleWalk

-----------------------------------------------------------------------------
(* The grid API on a world that stays as it is *)

Next ==
    \/ \E lhs \in Cells, rhs \in Cells : Called(add_grid_connection(lhs, rhs))
    \/ \E lhs \in Cells, rhs \in Cells : Called(remove_grid_connection(lhs, rhs))
    \/ Called(clear)
    \/ \E p \in Cells : Called(water_storage_at(p))

Spec == Init /\ [][Next]_vars

-----------------------------------------------------------------------------
(* The whole API on two cells, on a world that changes silently *)

ChainPairs == {<<cA, cB>>}
ChainCells == {cA, cB}
\* the squares the callers name: the two tanks, and for a drain also a bare square
NotifySites == {sqA, sqB}
Targets == {sqA, sqB, sqP}
EditItems == { [type |-> "water", volume |-> v] : v \in 1 .. MaxVol }
Rock == [type |-> "rock", volume |-> 1]

NextCache ==
    \/ \E pr \in ChainPairs : Called(add_grid_connection(pr[1], pr[2]))
    \/ \E pr \in ChainPairs : Called(remove_grid_connection(pr[1], pr[2]))
    \/ Called(clear)
    \/ \E p \in ChainCells : Called(water_storage_at(p))
    \/ \E p \in NotifySites : Called(on_contents_changed(p))
    \/ \E p \in NotifySites : Called(on_structure_changed(p))
    \/ Called(disconnect_tank(sqB))
    \/ \E it \in EditItems : Edited(put_item(sqA, it))
    \/ Edited(take_items(sqA))

SpecCache == Init /\ [][NextCache]_vars

-----------------------------------------------------------------------------
(* The three queries between mutations, on cells of two overmaps *)

QueryCells == {cA, cB, cD}

NextQuery ==
    \/ \E pr \in ChainPairs : Called(add_grid_connection(pr[1], pr[2]))
    \/ \E pr \in ChainPairs : Called(remove_grid_connection(pr[1], pr[2]))
    \/ Called(clear)
    \/ \E p \in QueryCells : Called(grid_at_call(p))
    \/ \E p \in QueryCells : Called(grid_connectivity_at_call(p))
    \/ \E p \in QueryCells : Called(water_storage_at(p))

SpecQuery == Init /\ [][NextQuery]_vars

-----------------------------------------------------------------------------
(* Scanning tanks that went away, came after the grid was built, or lie in a  *)
(* submap that is not resident                                                 *)

ScanCells == {cA, cB, cD}

NextScan ==
    \/ \E pr \in ChainPairs : Called(add_grid_connection(pr[1], pr[2]))
    \/ \E pr \in ChainPairs : Called(remove_grid_connection(pr[1], pr[2]))
    \/ \E p \in ScanCells : Called(water_storage_at(p))
    \/ Called(on_contents_changed(sqB))
    \/ Edited(remove_tank(sqB))
    \/ Edited(place_tank(sqP))
    \/ Edited(unload_submap(ms_to_sm(sqA)))
    \/ Called(load_submap(ms_to_sm(sqA)))

SpecScan == Init /\ [][NextScan]_vars

-----------------------------------------------------------------------------
(* Every public function on the chain A - B - C, the world left alone *)

IndexPairs == {<<cA, cB>>, <<cB, cC>>}
IndexCells == {cA, cB, cC}

NextIndex ==
    \/ \E pr \in IndexPairs : Called(add_grid_connection(pr[1], pr[2]))
    \/ \E pr \in IndexPairs : Called(remove_grid_connection(pr[1], pr[2]))
    \/ Called(clear)
    \/ \E p \in IndexCells : Called(water_storage_at(p))
    \/ Called(on_contents_changed(sqA))
    \/ \E p \in {sqB, sqC} : Called(on_structure_changed(p))
    \/ Called(disconnect_tank(sqB))

SpecIndex == Init /\ [][NextIndex]_vars

-----------------------------------------------------------------------------
(* Every change of the world notified, every submap resident *)

\* what the caller pours or drops into the tank under A
TruthItems == {[type |-> "fuel", volume |-> 1], Rock}

NextTruth ==
    \/ \E pr \in ChainPairs : Called(add_grid_connection(pr[1], pr[2]))
    \/ \E pr \in ChainPairs : Called(remove_grid_connection(pr[1], pr[2]))
    \/ \E p \in ChainCells : Called(water_storage_at(p))
    \/ \E p \in {sqA, sqP} : Called(disconnect_tank(p))
    \/ \E it \in TruthItems : Edited(fill_tank(sqA, it))
    \/ Edited(empty_tank(sqB))
    \/ Edited(build_tank(sqP))
    \/ Edited(dismantle_tank(sqB))

SpecTruth == Init /\ [][NextTruth]_vars

-----------------------------------------------------------------------------
(* Draining tanks that hold things that are no liquid *)

NextDry ==
    \/ \E pr \in ChainPairs : Called(add_grid_connection(pr[1], pr[2]))
    \/ \E pr \in ChainPairs : Called(remove_grid_connection(pr[1], pr[2]))
    \/ \E p \in Targets : Called(disconnect_tank(p))
    \/ \E m \in {sqA, sqP} : Edited(put_item(m, Rock))
    \/ \E m \in {sqA, sqB} : Edited(take_items(m))

SpecDry == Init /\ [][NextDry]_vars

-----------------------------------------------------------------------------
(* Draining two cells, to a tank or to a bare square whose submap comes and goes *)

NextDrain ==
    \/ \E pr \in ChainPairs : Called(add_grid_connection(pr[1], pr[2]))
    \/ \E pr \in ChainPairs : Called(remove_grid_connection(pr[1], pr[2]))
    \/ \E p \in ChainCells : Called(water_storage_at(p))
    \/ \E p \in Targets : Called(disconnect_tank(p))
    \/ \E it \in EditItems : Edited(put_item(sqA, it))
    \/ Edited(unload_submap(ms_to_sm(sqP)))
    \/ Called(load_submap(ms_to_sm(sqP)))

SpecDrain == Init /\ [][NextDrain]_vars

-----------------------------------------------------------------------------
(* grid_at stepped through, on the stores a caller makes by writing through   *)
(* the mutable connections_for map                                            *)

cE == <<178, 1, 0>>
cF == <<179, 1, 0>>
\* a square of four cells inside one overmap
WalkCells == {cA, cB, cE, cF}
\* the bits a caller sets: every bit along the sides of the square, the bit
\* below A and the bit of B that leads east into the next overmap
WriteBits ==
    { <<c, i>> \in WalkCells \X DirIndices : Add3(c, Dir(i)) \in WalkCells }
    \cup {<<cA, find_direction(<<0, 0, -1>>)>>, <<cB, find_direction(<<1, 0, 0>>)>>}

\* connections_for( om )[local].set( i ) by a caller holding the mutable map
direct_write(c, i) ==
    LET omc == get_om_global(c)
    IN  /\ ~Bit(store, c, i)
        /\ store' = set_bit(connection_bitset_at_mut(store, omc), omc, i, TRUE)
        /\ last' = Call("connections_for", NoPoint, NoPoint, FALSE, NoStats)
        /\ UNCHANGED <<parent_storage_grids, grids, resident, furn, items>>

\* grid_at( p ) up to the loop
grid_at_enter(p) ==
    /\ walk.pc # "loop"
    /\ walk' = [pc |-> "loop", seed |-> p,
                result |-> GridAtStart(p).result, open |-> GridAtStart(p).open]
    /\ last' = Call("grid_at", p, NoPoint, FALSE, NoStats)
    /\ UNCHANGED <<store, parent_storage_grids, grids, resident, furn, items, edits>>
    /\ Observe

\* one iteration of the loop
grid_at_iterate ==
    /\ walk.pc = "loop"
    /\ walk.open # <<>>
    /\ LET s == GridAtStep(store, [result |-> walk.result, open |-> walk.open])
       IN  /\ walk' = [walk EXCEPT !.result = s.result, !.open = s.open]
           /\ store' = s.store
    /\ UNCHANGED <<parent_storage_grids, grids, resident, furn, items, last,
                   memo, fresh, note, edges, edits>>

\* the frontier is empty: return result
grid_at_return ==
    /\ walk.pc = "loop"
    /\ walk.open = <<>>
    /\ walk' = [walk EXCEPT !.pc = "done"]
    /\ UNCHANGED <<store, parent_storage_grids, grids, resident, furn, items, last,
                   memo, fresh, note, edges, edits>>

NextWalk ==
    \/ \E w \in WriteBits : Called(direct_write(w[1], w[2]))
    \/ \E p \in WalkCells : grid_at_enter(p)
    \/ grid_at_iterate
    \/ grid_at_return

SpecWalk == Init /\ [][NextWalk]_vars

\* a traversal that has been entered runs on: nothing suspends the loop
SpecWalkFair == SpecWalk /\ WF_vars(grid_at_iterate) /\ WF_vars(grid_at_return)

-----------------------------------------------------------------------------
(* The mutation API on bits a caller wrote on one side only *)

MendBits == {<<cA, find_direction(Sub3(cB, cA))>>, <<cB, find_direction(Sub3(cA, cB))>>,
             <<cB, find_direction(Sub3(cC, cB))>>}
MendPairs == {<<cA, cB>>, <<cB, cA>>, <<cB, cC>>}

NextMend ==
    \/ \E w \in MendBits : Called(direct_write(w[1], w[2]))
    \/ \E pr \in MendPairs : Called(add_grid_connection(pr[1], pr[2]))
    \/ \E pr \in MendPairs : Called(remove_grid_connection(pr[1], pr[2]))
    \/ \E p \in {cA, cC} : Called(water_storage_at(p))

SpecMend == Init /\ [][NextMend]_vars

-----------------------------------------------------------------------------
(* Vocabulary of the properties *)

Opposite(i) == find_direction(Neg3(Dir(i)))
Adjacent(a, b) == Manhattan(Sub3(b, a)) = 1
SameRegion(a, b) == omt_to_om(a) = omt_to_om(b)
IsAdd(call) == call.op = "add_grid_connection"
IsRemove(call) == call.op = "remove_grid_connection"

\* the tanks that stand now in resident submaps under a set of cells
TanksUnder(S) ==
    { m \in Squares : ms_to_omt(m) \in S /\ furn[m] = "tank" /\ ms_to_sm(m) \in resident }

RECURSIVE LiquidIn(_)
LiquidIn(M) ==
    IF M = {} THEN 0
    ELSE LET m == CHOOSE x \in M : TRUE
         IN  SumLiquid(items[m]) + LiquidIn(M \ {m})

\* capacity and liquid of the tanks under a set of cells, straight from the world
Aggregate(S) ==
    [capacity |-> keg_capacity * Cardinality(TanksUnder(S)),
     stored |-> LiquidIn(TanksUnder(S))]

\* what water_storage_at( c ) would return in a given state
QueryStatsIn(T, st, res, fu, its, c) ==
    get_stats(res, fu, its, GridOf(storage_at(T, st, res, fu, c))).stats

\* what water_storage_at( c ) would return if it were the next call
QueryStats(c) == QueryStatsIn(Tracker, store, resident, furn, items, c)

\* the same after the step
QueryStatsNext(c) ==
    QueryStatsIn([parent |-> parent_storage_grids', grids |-> grids'],
                 store', resident', furn', items', c)

-----------------------------------------------------------------------------
\* C1: through add_grid_connection, remove_grid_connection and clear alone the
\* adjacency bits stay symmetric: a cell's bit for a direction is set exactly
\* when the neighbour in that direction has the opposite bit set.
C1_Symmetric ==
    \A c \in EntryCells(store) \cup Cells : \A i \in DirIndices :
        Bit(store, c, i) <=> Bit(store, Add3(c, Dir(i)), Opposite(i))

\* an edge was removed while another one stays
C1_Witness ==
    /\ IsRemove(last) /\ last.ok
    /\ \E c \in Cells : connection_bitset_at(store, c) # {}

\* C2: on an adjacent pair of one region, add_grid_connection on a pair that is
\* not connected returns true and the same call repeated at once returns false;
\* remove_grid_connection on a pair that is not connected returns false.
C2_IdempotentRejection ==
    /\ (IsAdd(last) /\ Adjacent(last.a, last.b) /\ SameRegion(last.a, last.b)
           /\ "absent" \in note) => last.ok
    /\ (IsAdd(last) /\ {"again", "after_ok"} \subseteq note) => ~last.ok
    /\ (IsRemove(last) /\ Adjacent(last.a, last.b) /\ SameRegion(last.a, last.b)
           /\ "absent" \in note) => ~last.ok

\* the second of two equal add calls in a row, the first of which succeeded
C2_Witness ==
    /\ IsAdd(last) /\ {"again", "after_ok"} \subseteq note /\ ~last.ok
    /\ Adjacent(last.a, last.b) /\ SameRegion(last.a, last.b)

\* no set bit leads into another region
NoCrossRegionBit ==
    \A c \in EntryCells(store) : \A i \in DirIndices :
        Bit(store, c, i) => SameRegion(c, Add3(c, Dir(i)))

\* C3: add_grid_connection on cells of different regions returns false and
\* leaves the bitsets of both cells as they were; so no set bit ever leads
\* into another region.
C3_CrossRegionRejected ==
    /\ []NoCrossRegionBit
    /\ [][(IsAdd(last') /\ ~SameRegion(last'.a, last'.b))
          => /\ ~last'.ok
             /\ connection_bitset_at(store', last'.a) = connection_bitset_at(store, last'.a)
             /\ connection_bitset_at(store', last'.b) = connection_bitset_at(store, last'.b)
         ]_vars

\* a rejected add between the adjacent cells C and D, C being connected already
C3_Witness ==
    /\ IsAdd(last) /\ ~last.ok /\ last.a = cC /\ last.b = cD
    /\ connection_bitset_at(store, cC) # {}

\* C4: an add_grid_connection or remove_grid_connection call that returns false
\* changes neither the adjacency store (the cells that have an entry, every
\* bitset) nor the aggregation cache.
C4_NoChangeOnFailure ==
    [][((IsAdd(last') \/ IsRemove(last')) /\ ~last'.ok)
       => /\ store' = store
          /\ parent_storage_grids' = parent_storage_grids
          /\ grids' = grids
      ]_vars

\* C6: once remove_grid_connection( B, C ) has succeeded on the chain A - B - C,
\* grid_at( A ) = {A, B}, grid_at( C ) = {C}, and the next water_storage_at
\* counts the tanks under C alone at C and those under A and B at A and at B.
C6_ChainSplit ==
    (IsRemove(last) /\ last.ok /\ {last.a, last.b} = {cB, cC} /\ edges = {{cA, cB}})
    => /\ grid_at(store, cA) = {cA, cB}
       /\ grid_at(store, cC) = {cC}
       /\ QueryStats(cC) = Aggregate({cC})
       /\ QueryStats(cA) = Aggregate({cA, cB})
       /\ QueryStats(cB) = Aggregate({cA, cB})

\* the chain was split, with tanks on both sides
C6_Witness ==
    /\ IsRemove(last) /\ last.ok /\ {last.a, last.b} = {cB, cC} /\ edges = {{cA, cB}}
    /\ Aggregate({cC}).capacity > 0
    /\ Aggregate({cA, cB}).stored > 0

\* the cells set bits lead to from a set of cells, by closure
RECURSIVE Reach(_, _)
Reach(st, S) ==
    LET S2 == S \cup { Add3(c, Dir(i)) : c \in S, i \in DirIndices }
        S3 == S \cup { n \in S2 : \E c \in S, i \in DirIndices :
                                     Bit(st, c, i) /\ n = Add3(c, Dir(i)) }
    IN  IF S3 = S THEN S ELSE Reach(st, S3)

\* C5: whatever the adjacency store, grid_at( seed ) contains the seed, contains
\* with a cell every neighbour a set bit of the cell leads to, and contains no
\* cell that set bits do not lead to from the seed.  (The returned set is
\* compared with the store while grid_at is still the latest call.)
C5_ComponentClosure ==
    (walk.pc = "done" /\ last.op = "grid_at")
    => /\ walk.seed \in walk.result
       /\ \A c \in walk.result : \A i \in DirIndices :
              Bit(store, c, i) => Add3(c, Dir(i)) \in walk.result
       /\ walk.result \subseteq Reach(store, {walk.seed})

\* a finished traversal of a store whose bits are not symmetric, over three cells or more
C5_Witness ==
    /\ walk.pc = "done" /\ last.op = "grid_at"
    /\ Cardinality(walk.result) >= 3
    /\ \E c \in walk.result : \E i \in DirIndices :
           Bit(store, c, i) /\ ~Bit(store, Add3(c, Dir(i)), Opposite(i))

\* C7 as stated: two water_storage_at calls for one cell return the same
\* result when no on_contents_changed, on_structure_changed,
\* add_grid_connection or remove_grid_connection call came between them.
C7_RepeatedQueryStable ==
    [][(last'.op = "water_storage_at" /\ memo[last'.a].stats # NoStats)
       => last'.stats = memo[last'.a].stats
      ]_vars

\* C7, amended: two water_storage_at calls for one cell return the same result
\* when none of on_contents_changed, on_structure_changed, add_grid_connection,
\* remove_grid_connection, disconnect_tank and clear came between them, whatever
\* happened to the contents of the tanks meanwhile.
C7_RepeatedQueryStableUndrained ==
    [][(last'.op = "water_storage_at" /\ memo[last'.a].stats # NoStats
            /\ ~memo[last'.a].tainted)
       => last'.stats = memo[last'.a].stats
      ]_vars

\* a repeated query that returned the remembered figures although the tanks
\* under the component hold something else by now
C7_Witness ==
    /\ last.op = "water_storage_at" /\ "undisturbed" \in note
    /\ last.stats # Aggregate(grid_at(store, last.a))

\* the storage grid a cell's base submap refers to now has its tanks scanned by
\* the call that ends the step
ScannedBy(call) ==
    call.stats = ScanStats(resident, furn, items,
                           grids[parent_storage_grids[omt_to_sm(call.a)]].tank_locations)

\* C8: after on_contents_changed( loc ) for a location of the storage grid G,
\* G holds no cached summary, and the next water_storage_at that reaches G,
\* for whichever cell of G, returns figures recomputed from the tanks'
\* contents at the time of that query.
C8_ContentsChangedInvalidates ==
    /\ [](\A f \in fresh : f.id \in DOMAIN grids /\ grids[f.id].cached_stats = NoStats)
    /\ [][(/\ last'.op = "water_storage_at"
           /\ omt_to_sm(last'.a) \in DOMAIN parent_storage_grids
           /\ parent_storage_grids[omt_to_sm(last'.a)] \in FreshIds)
          => ScannedBy(last')
         ]_vars

\* a query for another cell than the one of the notified location, returning
\* figures that differ from those cached before the notification
C8_Witness ==
    /\ last.op = "water_storage_at"
    /\ "renewed_elsewhere" \in note
    /\ last.stats = Aggregate(grid_at(store, last.a))

\* the component of a drain target has two resident tanks, each holding liquid
TwoFixtures(p) ==
    LET tanks == TanksUnder(grid_at(store, ms_to_omt(p)))
    IN  /\ Cardinality(tanks) = 2
        /\ \A m \in tanks : SumLiquid(items[m]) > 0

\* one stack of the given volume, and nothing else
SingleStack(its, volume) ==
    Len(its) = 1 /\ made_of_liquid(its[1]) /\ its[1].volume = volume

\* C9 as stated: disconnect_tank with any target location in a component with
\* two fixtures holding V1 and V2 empties both fixtures, leaves a single stack
\* of V1 + V2 at the target, and the next water_storage_at reports stored = 0.
C9_DrainAnyTarget ==
    [][(last'.op = "disconnect_tank" /\ TwoFixtures(last'.a))
       => LET p == last'.a
              tanks == TanksUnder(grid_at(store, ms_to_omt(p)))
          IN  /\ \A m \in tanks : items'[m] = <<>>
              /\ SingleStack(items'[p], LiquidIn(tanks))
              /\ QueryStatsNext(ms_to_omt(p)).stored = 0
      ]_vars

\* C9, amended: with a target that is not the square of a fixture,
\* disconnect_tank empties both fixtures and the next water_storage_at reports
\* stored = 0; the single stack of V1 + V2 is at the target if the target's
\* submap is resident, and nothing is deposited if it is not.  With the square
\* of one of the two fixtures as the target, the other fixture is emptied, the
\* target fixture holds the single stack of V1 + V2 and water_storage_at
\* reports stored = V1 + V2.
C9_DrainByTarget ==
    [][(last'.op = "disconnect_tank" /\ TwoFixtures(last'.a))
       => LET p == last'.a
              tanks == TanksUnder(grid_at(store, ms_to_omt(p)))
              total == LiquidIn(tanks)
          IN  IF p \in tanks
              THEN /\ \A m \in tanks \ {p} : items'[m] = <<>>
                   /\ SingleStack(items'[p], total)
                   /\ QueryStatsNext(ms_to_omt(p)).stored = total
              ELSE /\ \A m \in tanks : items'[m] = <<>>
                   /\ QueryStatsNext(ms_to_omt(p)).stored = 0
                   /\ IF ms_to_sm(p) \in resident
                      THEN SingleStack(items'[p], total)
                      ELSE items'[p] = items[p]
      ]_vars

\* two tanks with liquid were drained to a bare square of their component,
\* their summary having been cached with liquid in it
C9_Witness ==
    /\ last.op = "disconnect_tank" /\ last.a = sqP
    /\ grid_at(store, cB) = {cA, cB}
    /\ items[sqA] = <<>> /\ items[sqB] = <<>>
    /\ items[sqP] # <<>> /\ items[sqP][1].volume >= 3
    /\ \E c \in ChainCells : memo[c].stats # NoStats /\ memo[c].stats.stored > 0

\* C10: after clear() every cell has empty connectivity and is alone in its
\* component, no submap refers to a storage grid, and the next
\* water_storage_at( c ) reports a grid built anew for c alone, not a summary
\* cached before.
C10_ClearResets ==
    (last.op = "clear")
    => /\ \A c \in Cells : /\ grid_connectivity_at(store, c) = <<>>
                           /\ grid_at(store, c) = {c}
                           /\ QueryStats(c) = Aggregate({c})
       /\ EntryCells(store) = {}
       /\ DOMAIN parent_storage_grids = {}

\* clear() came after connections were made and a summary of two tanks cached
C10_Witness ==
    /\ last.op = "clear"
    /\ \E c \in ChainCells : /\ memo[c].stats # NoStats
                             /\ memo[c].stats # Aggregate({c})

\* C11: grid_at, grid_connectivity_at and water_storage_at leave the adjacency
\* store as it was (no overmap's map and no cell entry created, no bit
\* changed), and grid_at and grid_connectivity_at leave the tracker as it was.
C11_QueriesLeaveStore ==
    [][/\ (last'.op \in {"grid_at", "grid_connectivity_at", "water_storage_at"})
          => store' = store
       /\ (last'.op \in {"grid_at", "grid_connectivity_at"})
          => /\ parent_storage_grids' = parent_storage_grids
             /\ grids' = grids
      ]_vars

\* C12: during one grid_at traversal no cell is in the frontier twice, and no
\* cell of the frontier has been expanded already; so every reachable cell is
\* enqueued once and expanded once, cycles included.
C12_VisitedOnce ==
    (walk.pc = "loop")
    => /\ \A i, j \in DOMAIN walk.open : i # j => walk.open[i] # walk.open[j]
       /\ \A i \in DOMAIN walk.open : walk.open[i] \notin walk.result

\* C13: grid_at terminates on every store, with cycles and with bits set on
\* one side only: a traversal in its loop reaches the empty frontier and returns.
C13_Terminates == (walk.pc = "loop") ~> (walk.pc = "done")

\* a traversal returned from a store with a cycle and a bit set on one side only
C13_Witness ==
    /\ walk.pc = "done" /\ last.op = "grid_at"
    /\ walk.result = WalkCells \cup {Add3(cB, <<1, 0, 0>>)}
    /\ \A c \in WalkCells : Cardinality(connection_bitset_at(store, c)) >= 2
    /\ ~Bit(store, cB, find_direction(<<-1, 0, 0>>))

\* the cells whose bits a step can be asked about
KnownCells == Cells \cup EntryCells(store) \cup EntryCells(store')

\* the bits of the step's post-state are those of its pre-state except the bit
\* of a toward b and the bit of b toward a, which have the value v
OnlyPairWritten(a, b, v) ==
    LET ia == find_direction(Sub3(b, a))
        ib == find_direction(Sub3(a, b))
    IN  \A c \in KnownCells : \A i \in DirIndices :
            Bit(store', c, i) <=> IF <<c, i>> \in {<<a, ia>>, <<b, ib>>} THEN v
                                  ELSE Bit(store, c, i)

\* C14: a successful add_grid_connection( a, b ) sets the bit of a toward b and
\* the bit of b toward a, both clear before, and a successful
\* remove_grid_connection( a, b ) clears those two, both set before; no other
\* bit of any cell changes, and afterwards grid_connectivity_at( a ) holds the
\* direction b - a exactly after the add, likewise grid_connectivity_at( b ).
C14_ExactlyTwoBits ==
    [][((IsAdd(last') \/ IsRemove(last')) /\ last'.ok)
       => LET a == last'.a
              b == last'.b
              v == IsAdd(last')
          IN  /\ OnlyPairWritten(a, b, v)
              /\ Bit(store, a, find_direction(Sub3(b, a))) = ~v
              /\ Bit(store, b, find_direction(Sub3(a, b))) = ~v
              /\ (Sub3(b, a) \in Range(grid_connectivity_at(store', a))) = v
              /\ (Sub3(a, b) \in Range(grid_connectivity_at(store', b))) = v
      ]_vars

\* B was cut from A while its connection to C stayed
C14_Witness ==
    /\ IsRemove(last) /\ last.ok /\ {last.a, last.b} = {cA, cB}
    /\ grid_connectivity_at(store, cB) = <<Sub3(cC, cB)>>
    /\ grid_connectivity_at(store, cA) = <<>>

\* C15 as stated: a disconnect_tank that finds no liquid in any fixture of
\* the group leaves the contents of every fixture of the group and of the
\* target as they were.
C15_DryDrainKeepsContents ==
    [][(last'.op = "disconnect_tank" /\ DrainFindsNoLiquid(last'.a))
       => \A m \in DrainVisited(last'.a) \cup {last'.a} : items'[m] = items[m]
      ]_vars

\* C15, amended: a disconnect_tank that finds no liquid in any fixture of the
\* group deposits nothing, but it empties every fixture it visits of whatever
\* it holds; the contents of every other square, the target included when it
\* is no visited fixture, are as they were.
C15_DryDrainEmptiesFixtures ==
    [][(last'.op = "disconnect_tank" /\ DrainFindsNoLiquid(last'.a))
       => \A m \in Squares :
              items'[m] = IF m \in DrainVisited(last'.a) THEN <<>> ELSE items[m]
      ]_vars

\* a drain that met no liquid, but something else in a tank, with a target
\* that is no tank and holds something
C15_Witness ==
    /\ last.op = "disconnect_tank" /\ "dry" \in note
    /\ last.a = sqP /\ items[sqP] # <<>>

\* what the scan of a drain for the target p collects
DrainCollected(p) ==
    LET r == storage_at(Tracker, store, resident, furn, ms_to_omt(p))
    IN  DrainScan(resident, furn, DrainStart(items), r.grids[r.id].tank_locations)

\* C16: whenever disconnect_tank collects a positive volume of liquid, the
\* target holds afterwards exactly one stack, of the kind of the first liquid
\* the scan met and of the volume of all liquid collected, whatever was there
\* before and whether or not the target's submap is resident.
C16_CollectedIsDeposited ==
    [][(last'.op = "disconnect_tank" /\ DrainCollected(last'.a).total_volume > 0)
       => /\ SingleStack(items'[last'.a], DrainCollected(last'.a).total_volume)
          /\ items'[last'.a][1].type = DrainCollected(last'.a).liquid_type
      ]_vars

\* the squares a storage grid recorded as tank locations
Recorded(g) ==
    { ms_of(g.tank_locations[k].submap, g.tank_locations[k].pos) : k \in DOMAIN g.tank_locations }

\* C17: a water_storage_at that recomputes returns, over the tank locations
\* the grid recorded when it was built that lie in a resident submap and still
\* hold a tank, the number of tanks times the capacity of one and the sum of
\* the volumes of the liquid items; other locations add nothing, and a
\* component without tanks gives {0, 0}.
C17_RecomputedSummary ==
    [][(last'.op = "water_storage_at" /\ "recomputed" \in note')
       => LET g == grids'[parent_storage_grids'[omt_to_sm(last'.a)]]
              counted == Recorded(g) \cap TanksUnder(Cells)
          IN  /\ last'.stats.capacity = keg_capacity * Cardinality(counted)
              /\ last'.stats.stored = LiquidIn(counted)
              /\ (TanksUnder(grid_at(store, last'.a)) = {} /\ Recorded(g) = {})
                    => last'.stats = ZeroStats
      ]_vars

\* a recomputed summary of a grid that recorded two tanks of which one lies in
\* a submap not resident now, the other holding a rock beside its liquid
C17_Witness ==
    /\ last.op = "water_storage_at" /\ "recomputed" \in note
    /\ Recorded(grids[parent_storage_grids[omt_to_sm(last.a)]]) = {sqA, sqB}
    /\ ms_to_sm(sqA) \notin resident
    /\ last.stats = [capacity |-> keg_capacity, stored |-> 2]

\* C18: on an adjacent pair remove_grid_connection returns false exactly when
\* neither the bit of a toward b nor the bit of b toward a is set; with one of
\* the two set it returns true and leaves both clear, and add_grid_connection
\* in such a state returns true and leaves both set.
C18_OneSidedRepaired ==
    [][((IsAdd(last') \/ IsRemove(last')) /\ Adjacent(last'.a, last'.b)
            /\ SameRegion(last'.a, last'.b))
       => LET a == last'.a
              b == last'.b
              ia == find_direction(Sub3(b, a))
              ib == find_direction(Sub3(a, b))
              one_sided == Bit(store, a, ia) # Bit(store, b, ib)
          IN  /\ IsRemove(last') => /\ last'.ok = (Bit(store, a, ia) \/ Bit(store, b, ib))
                                    /\ last'.ok => ~Bit(store', a, ia) /\ ~Bit(store', b, ib)
              /\ (IsAdd(last') /\ one_sided)
                    => last'.ok /\ Bit(store', a, ia) /\ Bit(store', b, ib)
      ]_vars

\* a remove that succeeded on a pair with one bit set, the other cell keeping
\* its other connection
C18_Witness ==
    /\ IsRemove(last) /\ last.ok /\ "one_sided" \in note
    /\ {last.a, last.b} = {cA, cB}
    /\ connection_bitset_at(store, cA) = {}
    /\ connection_bitset_at(store, cB) = {find_direction(Sub3(cC, cB))}

\* the four submaps of every cell of a set
FourSubmaps(S) ==
    { Add3(omt_to_sm(c), d) : c \in S, d \in {<<0, 0, 0>>, <<1, 0, 0>>, <<0, 1, 0>>, <<1, 1, 0>>} }

\* C19: through the public functions every indexed submap refers to a storage
\* grid whose submaps are the four submaps of every cell of the component its
\* cell is in now, and the indexed submaps of one component refer to one grid.
C19_IndexMatchesTopology ==
    \A s \in DOMAIN parent_storage_grids :
        LET component == grid_at(store, sm_to_omt(s))
        IN  /\ parent_storage_grids[s] \in DOMAIN grids
            /\ Range(grids[parent_storage_grids[s]].submap_coords) = FourSubmaps(component)
            /\ \A t \in DOMAIN parent_storage_grids :
                   sm_to_omt(t) \in component
                   => parent_storage_grids[t] = parent_storage_grids[s]

\* the chain was indexed as a whole and then split: A and B refer to one grid,
\* C to another
C19_Witness ==
    /\ IsRemove(last) /\ last.ok /\ "after_ok" \notin note
    /\ edges = {{cA, cB}}
    /\ FourSubmaps(IndexCells) \subseteq DOMAIN parent_storage_grids
    /\ parent_storage_grids[omt_to_sm(cA)] = parent_storage_grids[omt_to_sm(cB)]
    /\ parent_storage_grids[omt_to_sm(cA)] # parent_storage_grids[omt_to_sm(cC)]

\* C20: with every submap resident, every change of a tank's contents
\* followed by on_contents_changed, every tank put up or taken away followed
\* by on_structure_changed and the topology changed by add_grid_connection and
\* remove_grid_connection only, water_storage_at( c ) is in every state the
\* capacity and the liquid of the tanks that stand under grid_at( c ).
C20_QueryIsTrueAggregate ==
    /\ [](\A c \in ChainCells : QueryStats(c) = Aggregate(grid_at(store, c)))
    /\ [][last'.op = "water_storage_at"
             => last'.stats = Aggregate(grid_at(store, last'.a))]_vars

\* a query over three tanks, one of them put up where an earlier drain left
\* its stack, after the contents of another were changed
C20_Witness ==
    /\ last.op = "water_storage_at"
    /\ edits = MaxEdits
    /\ Cardinality(TanksUnder(grid_at(store, last.a))) = 3
    /\ items[sqA] # <<>> /\ items[sqB] = <<>> /\ items[sqP] # <<>>
    /\ last.stats.stored > 3

====
